---- MODULE Spec2Model ----
(***************************************************************************)
(* Model of the keyed tree container of src/src/lib.rs: Graph<D, K> with   *)
(* append_node, travel_to_node and remove_node_with_childs, and Node<D, K>.*)
(* A Vec is a sequence, an Option<K> is a key or None, an Option<&Node> is *)
(* the index of the node in the sequence or None.                          *)
(*                                                                         *)
(* Every call is one action that leaves the tree before the call in prev,  *)
(* the tree after it in nodes and the call with its outcome in last; the   *)
(* action Return ends the call before the next one starts.                 *)
(***************************************************************************)
EXTENDS Integers, Sequences, FiniteSets, TLC

\* ---- bounds ----
\* number of keys the caller chooses from
NumKeys == 3
\* append_node is not called on a tree of MaxNodes nodes
MaxNodes == 4
\* append_node is not called after MaxAppends successful appends
MaxAppends == 4
\* longest route handed to travel_to_node
MaxRoute == 2

Keys == 1..NumKeys
\* Option::None, of a father_key and of an Option<&Node>
None == 0

VARIABLES nodes, prev, last, appends, removals, aborted

vars == <<nodes, prev, last, appends, removals, aborted>>

\* ---- Node ----
Node_new(data, key, father_key) ==
  [data |-> data, key |-> key, father_key |-> father_key, children |-> <<>>]

\* mutant: only the first child key is compared
has_child_first_only(node, key) ==
  Len(node.children) > 0 /\ node.children[1] = key

has_child(node, key) ==
  \E i \in DOMAIN node.children : node.children[i] = key

\* ---- helpers of the container ----
len(ns) == Len(ns)

is_empty(ns) == Len(ns) = 0

find_node_with_key(ns, key) ==
  IF \E i \in DOMAIN ns : ns[i].key = key
  THEN CHOOSE i \in DOMAIN ns :
         /\ ns[i].key = key
         /\ \A j \in DOMAIN ns : ns[j].key = key => i <= j
  ELSE None

\* mutant: the deleted key is also taken out of every children list
delete_node_and_unlink(ns, key) ==
  IF \E i \in DOMAIN ns : ns[i].key = key
  THEN LET index == CHOOSE i \in DOMAIN ns :
                      /\ ns[i].key = key
                      /\ \A j \in DOMAIN ns : ns[j].key = key => i <= j
           rest == SubSeq(ns, 1, index - 1) \o SubSeq(ns, index + 1, Len(ns))
           Other(c) == c # key
       IN  [i \in DOMAIN rest |->
              [rest[i] EXCEPT !.children = SelectSeq(@, Other)]]
  ELSE ns

\* mutant: a key that is not found deletes the first node
delete_node_or_first(ns, key) ==
  IF \E i \in DOMAIN ns : ns[i].key = key
  THEN LET index == CHOOSE i \in DOMAIN ns :
                      /\ ns[i].key = key
                      /\ \A j \in DOMAIN ns : ns[j].key = key => i <= j
       IN  SubSeq(ns, 1, index - 1) \o SubSeq(ns, index + 1, Len(ns))
  ELSE SubSeq(ns, 2, Len(ns))

delete_node(ns, key) ==
  IF \E i \in DOMAIN ns : ns[i].key = key
  THEN LET index == CHOOSE i \in DOMAIN ns :
                      /\ ns[i].key = key
                      /\ \A j \in DOMAIN ns : ns[j].key = key => i <= j
       IN  SubSeq(ns, 1, index - 1) \o SubSeq(ns, index + 1, Len(ns))
  ELSE ns

\* find_all_child_nodes has no base case but "key not found".  Every frame
\* that recurses has found a node for its key, so a call stack deeper than
\* Len(ns) + 1 frames holds the same key twice, and the recursion, a
\* function of the key alone, never returns: the stack overflows.
\* overflow |-> TRUE is that outcome.
RECURSIVE find_all_child_nodes(_, _, _)
RECURSIVE collect_childs(_, _, _, _, _)
RECURSIVE collect_childs_no_push(_, _, _, _, _)
RECURSIVE collect_childs_pre_order(_, _, _, _, _)

\* mutant: the child itself is not pushed after its descendants
collect_childs_no_push(ns, children, i, all_nodes, depth) ==
  IF i > Len(children) THEN [overflow |-> FALSE, keys |-> all_nodes]
  ELSE LET found_childs == find_all_child_nodes(ns, children[i], depth + 1)
       IN  IF found_childs.overflow THEN found_childs
           ELSE collect_childs_no_push(ns, children, i + 1,
                  all_nodes \o found_childs.keys, depth)

\* mutant: the child is pushed before its descendants
collect_childs_pre_order(ns, children, i, all_nodes, depth) ==
  IF i > Len(children) THEN [overflow |-> FALSE, keys |-> all_nodes]
  ELSE LET found_childs == find_all_child_nodes(ns, children[i], depth + 1)
       IN  IF found_childs.overflow THEN found_childs
           ELSE collect_childs_pre_order(ns, children, i + 1,
                  Append(all_nodes, children[i]) \o found_childs.keys, depth)

\* the for loop of find_all_child_nodes over node_to_delete.children
collect_childs(ns, children, i, all_nodes, depth) ==
  IF i > Len(children) THEN [overflow |-> FALSE, keys |-> all_nodes]
  ELSE LET found_childs == find_all_child_nodes(ns, children[i], depth + 1)
       IN  IF found_childs.overflow THEN found_childs
           ELSE collect_childs(ns, children, i + 1,
                  Append(all_nodes \o found_childs.keys, children[i]), depth)

find_all_child_nodes(ns, key, depth) ==
  IF depth > Len(ns) + 1 THEN [overflow |-> TRUE, keys |-> <<>>]
  ELSE LET node_to_delete == find_node_with_key(ns, key)
       IN  IF node_to_delete = None THEN [overflow |-> FALSE, keys |-> <<>>]
           ELSE collect_childs(ns, ns[node_to_delete].children, 1, <<>>, depth)

\* the for loop of remove_node_with_childs over all_nodes_to_remove
RECURSIVE delete_all(_, _, _)
delete_all(ns, all_nodes_to_remove, i) ==
  IF i > Len(all_nodes_to_remove) THEN ns
  ELSE delete_all(delete_node(ns, all_nodes_to_remove[i]),
                  all_nodes_to_remove, i + 1)

\* ---- Graph::append_node ----
\* mutant: only the first node is compared with the father key
append_scan_first_only(ns, node) ==
  IF node.father_key # None /\ ns[1].key = node.father_key
  THEN [nodes |-> [ns EXCEPT ![1].children = Append(@, node.key)],
        added_key |-> TRUE]
  ELSE [nodes |-> ns, added_key |-> FALSE]

\* mutant: the loop has no break, the key is pushed on every node whose
\* key is the father key
append_scan_no_break(ns, node) ==
  IF node.father_key # None /\ \E i \in DOMAIN ns : ns[i].key = node.father_key
  THEN [nodes |-> [i \in DOMAIN ns |->
                     IF ns[i].key = node.father_key
                     THEN [ns[i] EXCEPT !.children = Append(@, node.key)]
                     ELSE ns[i]],
        added_key |-> TRUE]
  ELSE [nodes |-> ns, added_key |-> FALSE]

\* the for loop over self.nodes.iter_mut(): the key is pushed on the first
\* node whose key is the father key
append_scan(ns, node) ==
  IF node.father_key # None /\ \E i \in DOMAIN ns : ns[i].key = node.father_key
  THEN LET f == CHOOSE i \in DOMAIN ns :
                  /\ ns[i].key = node.father_key
                  /\ \A j \in DOMAIN ns : ns[j].key = node.father_key => i <= j
       IN  [nodes |-> [ns EXCEPT ![f].children = Append(@, node.key)],
            added_key |-> TRUE]
  ELSE [nodes |-> ns, added_key |-> FALSE]

\* mutant: the node is pushed before the father is checked
append_node_push_first(ns, node) ==
  LET scan == IF ~is_empty(ns) THEN append_scan(ns, node)
              ELSE [nodes |-> ns, added_key |-> FALSE]
  IN  IF is_empty(ns) /\ node.father_key # None
      THEN [nodes |-> ns, panicked |-> TRUE]
      ELSE [nodes |-> Append(scan.nodes, node),
            panicked |-> ~is_empty(scan.nodes) /\ ~scan.added_key]

\* mutant: the final match on (is_empty, added_key) is missing
append_node_unchecked(ns, node) ==
  LET scan == IF ~is_empty(ns) THEN append_scan(ns, node)
              ELSE [nodes |-> ns, added_key |-> FALSE]
  IN  IF is_empty(ns) /\ node.father_key # None
      THEN [nodes |-> ns, panicked |-> TRUE]
      ELSE [nodes |-> Append(scan.nodes, node), panicked |-> FALSE]

\* nodes is the tree when the call ends, by return or by panic
append_node(ns, node) ==
  LET scan == IF ~is_empty(ns) THEN append_scan(ns, node)
              ELSE [nodes |-> ns, added_key |-> FALSE]
      first_panics == /\ is_empty(ns)
                      /\ \/ node.father_key = None /\ ~is_empty(ns)
                         \/ node.father_key # None /\ is_empty(ns)
  IN  IF first_panics THEN [nodes |-> ns, panicked |-> TRUE]
      ELSE IF ~is_empty(scan.nodes) /\ ~scan.added_key
           THEN [nodes |-> scan.nodes, panicked |-> TRUE]
           ELSE [nodes |-> Append(scan.nodes, node), panicked |-> FALSE]

\* ---- Graph::travel_to_node ----
\* the first for loop: the first node without a father key
start_node_of(ns) ==
  IF \E i \in DOMAIN ns : ns[i].father_key = None
  THEN CHOOSE i \in DOMAIN ns :
         /\ ns[i].father_key = None
         /\ \A j \in DOMAIN ns : ns[j].father_key = None => i <= j
  ELSE None

\* the for loop over route
RECURSIVE travel_route(_, _, _, _)
travel_route(ns, route, i, start_node) ==
  IF i > Len(route) THEN start_node
  ELSE IF start_node = None THEN travel_route(ns, route, i + 1, start_node)
  ELSE LET new_start_node == IF has_child(ns[start_node], route[i])
                             THEN find_node_with_key(ns, route[i])
                             ELSE None
       IN  IF new_start_node = None THEN None
           ELSE travel_route(ns, route, i + 1, new_start_node)

\* mutant: the empty route is taken for a route that finds nothing
travel_to_node_no_empty_route(ns, route) ==
  IF Len(route) = 0 THEN None
  ELSE travel_route(ns, route, 1, start_node_of(ns))

travel_to_node(ns, route) == travel_route(ns, route, 1, start_node_of(ns))

\* ---- Graph::remove_node_with_childs ----
\* mutant: only the node with the key is deleted
remove_node_only(ns, key) ==
  [nodes |-> delete_node(ns, key), overflow |-> FALSE,
   all_nodes_to_remove |-> <<key>>]

\* mutant: the key itself is not pushed after its descendants
remove_childs_only(ns, key) ==
  LET found == find_all_child_nodes(ns, key, 1)
  IN  IF found.overflow
      THEN [nodes |-> ns, overflow |-> TRUE, all_nodes_to_remove |-> <<>>]
      ELSE [nodes |-> delete_all(ns, found.keys, 1), overflow |-> FALSE,
            all_nodes_to_remove |-> found.keys]

\* all_nodes_to_remove is the list the deleting loop runs over (none when
\* the collection overflows the stack)
remove_node_with_childs(ns, key) ==
  LET found == find_all_child_nodes(ns, key, 1)
      all_nodes_to_remove == Append(found.keys, key)
  IN  IF found.overflow
      THEN [nodes |-> ns, overflow |-> TRUE, all_nodes_to_remove |-> <<>>]
      ELSE [nodes |-> delete_all(ns, all_nodes_to_remove, 1),
            overflow |-> FALSE,
            all_nodes_to_remove |-> all_nodes_to_remove]

\* ---- state machine ----
NoNode == [data |-> 0, key |-> None, father_key |-> None, children |-> <<>>]

\* no call is in progress and the caller holds no result
Idle == [op |-> "idle", node |-> NoNode, key |-> None, route |-> <<>>,
         outcome |-> "ok", found |-> None, all_nodes_to_remove |-> <<>>]

Routes == UNION {[1..n -> Keys] : n \in 0..MaxRoute}

\* The nodes the caller may hand to append_node.  The code never reads,
\* compares or copies a payload (D has no trait bound), so the payloads are
\* taken pairwise distinct: the n-th appended node carries payload n.
NewNodes == {Node_new(appends + 1, k, f) : k \in Keys, f \in Keys \cup {None}}

LiveKeys == {nodes[i].key : i \in DOMAIN nodes}

\* Graph::new()
Init ==
  /\ nodes = <<>>
  /\ prev = <<>>
  /\ last = [Idle EXCEPT !.op = "new"]
  /\ appends = 0
  /\ removals = 0
  /\ aborted = FALSE

CallAppendNode(node) ==
  /\ ~aborted
  /\ last = Idle
  /\ Len(nodes) < MaxNodes
  /\ appends < MaxAppends
  /\ LET r == append_node(nodes, node)
     IN  /\ nodes' = r.nodes
         /\ appends' = IF r.panicked THEN appends ELSE appends + 1
         /\ last' = [Idle EXCEPT !.op = "append", !.node = node,
                       !.outcome = IF r.panicked THEN "panic" ELSE "ok"]
  /\ prev' = nodes
  /\ UNCHANGED <<removals, aborted>>

\* removals counts the calls made so far: 0, 1, or 2 for two and more.
\* A stack overflow aborts the process.
CallRemoveNodeWithChilds(key) ==
  /\ ~aborted
  /\ last = Idle
  /\ LET r == remove_node_with_childs(nodes, key)
     IN  /\ nodes' = r.nodes
         /\ aborted' = r.overflow
         /\ last' = [Idle EXCEPT !.op = "remove", !.key = key,
                       !.outcome = IF r.overflow THEN "overflow" ELSE "ok",
                       !.all_nodes_to_remove = r.all_nodes_to_remove]
  /\ prev' = nodes
  /\ removals' = IF removals < 2 THEN removals + 1 ELSE removals
  /\ UNCHANGED appends

CallTravelToNode(route) ==
  /\ ~aborted
  /\ last = Idle
  /\ nodes' = nodes
  /\ prev' = nodes
  /\ last' = [Idle EXCEPT !.op = "travel", !.route = route,
                !.found = travel_to_node(nodes, route)]
  /\ UNCHANGED <<appends, removals, aborted>>

\* The call has returned and the caller is done with its result (the borrow
\* of the node travel_to_node returned ends); the next call may start.
Return ==
  /\ ~aborted
  /\ last # Idle
  /\ last' = Idle
  /\ prev' = nodes
  /\ UNCHANGED <<nodes, appends, removals, aborted>>

\* any node is appended, any key removed
Next ==
  \/ \E node \in NewNodes : CallAppendNode(node)
  \/ \E key \in Keys : CallRemoveNodeWithChilds(key)
  \/ Return

Spec == Init /\ [][Next]_vars

\* every appended key differs from the keys of the nodes live at that moment
NextUnique ==
  \/ \E node \in NewNodes : node.key \notin LiveKeys /\ CallAppendNode(node)
  \/ \E key \in Keys : CallRemoveNodeWithChilds(key)
  \/ Return

SpecUnique == Init /\ [][NextUnique]_vars

\* as SpecUnique, with the traversals
NextTravel ==
  \/ \E node \in NewNodes : node.key \notin LiveKeys /\ CallAppendNode(node)
  \/ \E key \in Keys : CallRemoveNodeWithChilds(key)
  \/ \E route \in Routes : CallTravelToNode(route)
  \/ Return

SpecTravel == Init /\ [][NextTravel]_vars

\* as Spec, with the traversals of the empty route and of the empty tree
NextEmptyRoute ==
  \/ \E node \in NewNodes : CallAppendNode(node)
  \/ \E key \in Keys : CallRemoveNodeWithChilds(key)
  \/ \E route \in Routes :
       (Len(route) = 0 \/ is_empty(nodes)) /\ CallTravelToNode(route)
  \/ Return

SpecEmptyRoute == Init /\ [][NextEmptyRoute]_vars

\* ---- vocabulary of the claims ----
KeysOf(ns) == {ns[i].key : i \in DOMAIN ns}

RootsOf(ns) == {i \in DOMAIN ns : ns[i].father_key = None}

\* the node that carries the key, where one does
NodeOfKey(ns, key) == CHOOSE i \in DOMAIN ns : ns[i].key = key

\* the chain of parent keys of node i leads to key, within fuel links
RECURSIVE LeadsTo(_, _, _, _)
LeadsTo(ns, i, key, fuel) ==
  /\ fuel > 0
  /\ ns[i].father_key # None
  /\ \/ ns[i].father_key = key
     \/ /\ ns[i].father_key \in KeysOf(ns)
        /\ LeadsTo(ns, NodeOfKey(ns, ns[i].father_key), key, fuel - 1)

\* the transitive descendants of the key, by parent keys
Descendants(ns, key) == {i \in DOMAIN ns : LeadsTo(ns, i, key, Len(ns))}

\* the keys on the parent path from the root (exclusive) down to node i
RECURSIVE PathTo(_, _, _)
PathTo(ns, i, fuel) ==
  IF ns[i].father_key = None \/ fuel = 0 \/ ns[i].father_key \notin KeysOf(ns)
  THEN <<>>
  ELSE Append(PathTo(ns, NodeOfKey(ns, ns[i].father_key), fuel - 1), ns[i].key)

RangeOf(seq) == {seq[i] : i \in DOMAIN seq}

\* payload, key and parent key of a node
Core(n) == <<n.data, n.key, n.father_key>>

AcceptedBy(ns, node) ==
  \/ ns = <<>> /\ node.father_key = None
  \/ /\ ns # <<>>
     /\ node.father_key # None
     /\ \E i \in DOMAIN ns : ns[i].key = node.father_key

\* ---- C1 ----
\* C1: append_node succeeds if and only if the tree is empty and the node
\* has no parent key, or the tree is non-empty and the node's parent key is
\* the key of a node of the tree; otherwise it panics.  Key uniqueness is
\* no part of the test.
C1_AppendAcceptance ==
  last.op = "append" =>
    /\ last.outcome \in {"ok", "panic"}
    /\ last.outcome = "ok" <=> AcceptedBy(prev, last.node)

\* a node whose key is already in the tree is accepted
C1_Witness ==
  /\ last.op = "append"
  /\ last.outcome = "ok"
  /\ last.node.key \in KeysOf(prev)

\* ---- C2 ----
\* C2: a failing append_node leaves the node sequence, every children list
\* and len() as they were.
C2_FailedAppendUnchanged ==
  (last.op = "append" /\ last.outcome = "panic") =>
    /\ nodes = prev
    /\ len(nodes) = len(prev)

\* the parent key of the node matches no node of a non-empty tree
C2_Witness ==
  /\ last.op = "append"
  /\ last.outcome = "panic"
  /\ prev # <<>>
  /\ last.node.father_key # None
  /\ last.node.father_key \notin KeysOf(prev)

\* ---- C3 ----
\* C3: a non-empty tree built by successful appends alone has exactly one
\* node without a parent key.
C3_OneRoot ==
  (removals = 0 /\ nodes # <<>>) => Cardinality(RootsOf(nodes)) = 1

\* a parentless node was refused by a tree of two nodes and more
C3_Witness ==
  /\ removals = 0
  /\ last.op = "append"
  /\ last.node.father_key = None
  /\ Len(prev) >= 2
  /\ Len(nodes) = Len(prev)

\* ---- C4 ----
\* C4: with every appended key new among the live keys,
\* remove_node_with_childs(k) lowers len() by 1 + the number of live nodes
\* whose chain of parent keys leads to k when k is present, and by 0 when
\* it is not.
C4_RemoveLowersLen ==
  last.op = "remove" =>
    len(prev) - len(nodes) =
      IF last.key \in KeysOf(prev)
      THEN 1 + Cardinality(Descendants(prev, last.key))
      ELSE 0

\* ---- C5 ----
\* C5: in a tree built by successful appends of pairwise distinct keys,
\* travel_to_node of the parent path of a node returns that node, and of a
\* route whose next key is no child of the current node returns no node.
C5_TravelPath ==
  (last.op = "travel" /\ removals = 0) =>
    /\ \A n \in DOMAIN nodes :
         last.route = PathTo(nodes, n, Len(nodes)) => last.found = n
    /\ \A j \in DOMAIN last.route :
         (\E n \in DOMAIN nodes :
            /\ PathTo(nodes, n, Len(nodes)) = SubSeq(last.route, 1, j - 1)
            /\ \A c \in DOMAIN nodes[n].children :
                 nodes[n].children[c] # last.route[j])
         => last.found = None

\* the chain R, A (parent R), B (parent A) and the route <<A, B>>
C5_Witness ==
  /\ last.op = "travel"
  /\ removals = 0
  /\ Len(last.route) = 2
  /\ last.found # None
  /\ nodes[last.found].father_key = last.route[1]
  /\ nodes[last.found].key = last.route[2]

\* ---- C6 ----
\* C6: in a tree built by successful appends of pairwise distinct keys,
\* after remove_node_with_childs(k) no node with key k and no descendant
\* of k is left, every route that holds k travels to no node, and k is
\* still in the children list of its former parent.
C6_CascadingDelete ==
  (last.op = "remove" /\ removals = 1) =>
    /\ last.key \notin KeysOf(nodes)
    /\ \A i \in Descendants(prev, last.key) : prev[i].key \notin KeysOf(nodes)
    /\ \A route \in Routes :
         last.key \in RangeOf(route) => travel_to_node(nodes, route) = None
    /\ \A i \in DOMAIN prev :
         (prev[i].key = last.key /\ prev[i].father_key # None) =>
           \E p \in DOMAIN nodes :
             /\ nodes[p].key = prev[i].father_key
             /\ \E c \in DOMAIN nodes[p].children :
                  nodes[p].children[c] = last.key

\* a child of the root that has a child of its own is removed
C6_Witness ==
  /\ last.op = "remove"
  /\ removals = 1
  /\ \E i \in DOMAIN prev :
       /\ prev[i].key = last.key
       /\ prev[i].father_key # None
       /\ prev[NodeOfKey(prev, prev[i].father_key)].father_key = None
  /\ Descendants(prev, last.key) # {}

\* ---- C7 ----
\* C7: with every appended key new among the live keys,
\* remove_node_with_childs(k) leaves every node that is neither k nor a
\* descendant of k in the tree, with its payload, key, parent key and
\* relative position.
C7_RemoveKeepsTheRest ==
  last.op = "remove" =>
    LET gone == {i \in DOMAIN prev : prev[i].key = last.key}
                  \cup Descendants(prev, last.key)
        kept == DOMAIN prev \ gone
    IN  /\ \A i \in kept : \E j \in DOMAIN nodes : Core(nodes[j]) = Core(prev[i])
        /\ \A i1, i2 \in kept : i1 < i2 =>
             \E j1, j2 \in DOMAIN nodes :
               /\ j1 < j2
               /\ Core(nodes[j1]) = Core(prev[i1])
               /\ Core(nodes[j2]) = Core(prev[i2])

\* ---- C8 ----
\* C8: remove_node_with_childs(k) for a key of no node reports no error
\* and leaves the node sequence and every children list unchanged.
C8_RemoveAbsentKey ==
  (last.op = "remove" /\ last.key \notin KeysOf(prev)) =>
    /\ last.outcome = "ok"
    /\ nodes = prev

\* the key of no node, left in a children list of a non-empty tree
C8_Witness ==
  /\ last.op = "remove"
  /\ last.key \notin KeysOf(prev)
  /\ \E i \in DOMAIN prev : has_child(prev[i], last.key)

\* ---- C9 ----
\* C9: with every appended key new among the live keys, the tree is empty
\* or has exactly one node without a parent key, and the parent key of
\* every other node is the key of a node of the tree.
C9_RootAndParents ==
  \/ nodes = <<>>
  \/ /\ Cardinality(RootsOf(nodes)) = 1
     /\ \A i \in DOMAIN nodes :
          nodes[i].father_key # None => nodes[i].father_key \in KeysOf(nodes)

\* a removal took a node with a descendant out of a tree that stays
\* non-empty
C9_Witness ==
  /\ last.op = "remove"
  /\ nodes # <<>>
  /\ last.key \in KeysOf(prev)
  /\ Descendants(prev, last.key) # {}

\* ---- C10 ----
\* the keys of the nodes whose parent key is key, in the order of the tree
RECURSIVE ChildKeysOf(_, _, _)
ChildKeysOf(ns, key, i) ==
  IF i > Len(ns) THEN <<>>
  ELSE IF ns[i].father_key = key
       THEN <<ns[i].key>> \o ChildKeysOf(ns, key, i + 1)
       ELSE ChildKeysOf(ns, key, i + 1)

\* C10: in every reachable state, the children list of each node is the
\* keys of the nodes of the tree whose parent key is the key of that node,
\* in the order they were appended.
C10_ChildrenExact ==
  \A i \in DOMAIN nodes :
    nodes[i].children = ChildKeysOf(nodes, nodes[i].key, 1)

\* ---- C11 ----
\* C11: every call of remove_node_with_childs returns, for every key and
\* every tree that successful appends and removals reach, duplicate keys
\* included: the collection of the descendants never recurses forever.
C11_RemoveTerminates ==
  last.op = "remove" => last.outcome = "ok"

\* ---- C12 ----
\* C12: the empty tree accepts a parentless node only, the populated tree
\* parented nodes only; with distinct live keys the removal of the root key
\* leaves len() = 0 and is_empty(), and the tree then accepts a parentless
\* root again and refuses parented nodes.
C12_Lifecycle ==
  /\ (last.op = "append" /\ is_empty(prev)) =>
       (last.outcome = "ok" <=> last.node.father_key = None)
  /\ (last.op = "append" /\ ~is_empty(prev) /\ last.outcome = "ok") =>
       last.node.father_key # None
  /\ (last.op = "append" /\ ~is_empty(prev) /\ last.node.father_key = None) =>
       last.outcome = "panic"
  /\ (last.op = "remove" /\ \E i \in RootsOf(prev) : prev[i].key = last.key) =>
       /\ len(nodes) = 0
       /\ is_empty(nodes)

\* a tree that was populated and then emptied accepts a new root
C12_Witness ==
  /\ last.op = "append"
  /\ last.outcome = "ok"
  /\ is_empty(prev)
  /\ removals >= 1
  /\ appends >= 2

\* ---- C13 ----
\* the first node that carries the key, where one does
FirstOfKey(ns, key) ==
  CHOOSE i \in DOMAIN ns :
    /\ ns[i].key = key
    /\ \A j \in DOMAIN ns : ns[j].key = key => i <= j

Occurrences(seq, x) == Cardinality({i \in DOMAIN seq : seq[i] = x})

\* C13: remove_node_with_childs changes the children list of no surviving
\* node: after the removal of a present key k with a parent, the children
\* list of that parent still holds k, and a later append_node of a node
\* with key k under the same parent adds a second occurrence of k.
C13_RemoveLeavesChildrenLists ==
  /\ last.op = "remove" =>
       \A j \in DOMAIN nodes : \E i \in DOMAIN prev :
         /\ prev[i].data = nodes[j].data
         /\ prev[i].children = nodes[j].children
  /\ (last.op = "remove" /\ last.outcome = "ok" /\ last.key \in KeysOf(prev)) =>
       LET k == prev[FirstOfKey(prev, last.key)]
       IN  k.father_key # None =>
             \E p \in DOMAIN nodes :
               /\ nodes[p].key = k.father_key
               /\ Occurrences(nodes[p].children, last.key) >= 1
  /\ (/\ last.op = "append"
      /\ last.outcome = "ok"
      /\ last.node.father_key # None
      /\ last.node.key \notin KeysOf(prev)) =>
       LET f == FirstOfKey(prev, last.node.father_key)
       IN  Occurrences(prev[f].children, last.node.key) >= 1 =>
             /\ nodes[f].data = prev[f].data
             /\ Occurrences(nodes[f].children, last.node.key) =
                  Occurrences(prev[f].children, last.node.key) + 1

\* a removed key is appended again under the parent that still lists it
C13_Witness ==
  /\ last.op = "append"
  /\ last.outcome = "ok"
  /\ last.node.father_key # None
  /\ last.node.key \notin KeysOf(prev)
  /\ removals >= 1
  /\ LET f == FirstOfKey(prev, last.node.father_key)
     IN  /\ Occurrences(prev[f].children, last.node.key) = 1
         /\ Occurrences(nodes[f].children, last.node.key) = 2

\* ---- C14 ----
\* C14: a successful append_node on a non-empty tree pushes the key of the
\* node on the children list of the first node, in insertion order, whose
\* key is the parent key, places the node with an empty children list at
\* the end of the sequence, raises len() by 1 and changes no other node,
\* a later node with the key of the parent included; a successful append
\* of the root changes no children list.
C14_AppendEffect ==
  (last.op = "append" /\ last.outcome = "ok") =>
    /\ len(nodes) = len(prev) + 1
    /\ nodes[len(nodes)] = [last.node EXCEPT !.children = <<>>]
    /\ IF is_empty(prev) THEN TRUE
       ELSE LET f == FirstOfKey(prev, last.node.father_key)
            IN  /\ nodes[f] = [prev[f] EXCEPT
                                 !.children = Append(@, last.node.key)]
                /\ \A i \in DOMAIN prev : i # f => nodes[i] = prev[i]

\* the parent key is the key of two nodes of the tree
C14_Witness ==
  /\ last.op = "append"
  /\ last.outcome = "ok"
  /\ \E i, j \in DOMAIN prev :
       /\ i < j
       /\ prev[i].key = last.node.father_key
       /\ prev[j].key = last.node.father_key

\* ---- C15 ----
\* C15: travel_to_node of the empty route returns the root, the first node
\* without a parent key, whenever the tree is non-empty; on the empty tree
\* it returns no node for every route; it never changes the tree.
C15_EmptyRouteAndEmptyTree ==
  last.op = "travel" =>
    /\ nodes = prev
    /\ (Len(last.route) = 0 /\ ~is_empty(nodes)) =>
         /\ last.found \in DOMAIN nodes
         /\ nodes[last.found].father_key = None
         /\ \A j \in 1..(last.found - 1) : nodes[j].father_key # None
    /\ is_empty(nodes) => last.found = None

\* the empty route on a tree that appends and a removal have shaped
C15_Witness ==
  /\ last.op = "travel"
  /\ Len(last.route) = 0
  /\ len(nodes) >= 2
  /\ removals >= 1
  /\ last.found \in DOMAIN nodes

\* ---- C16 ----
\* C16: with every appended key new among the live keys, a node that
\* travel_to_node returns for a non-empty route carries the last key of
\* the route, and its parent key is the key of the node the route without
\* its last key leads to (the root for a route of one key).
C16_TravelFollowsParents ==
  (last.op = "travel" /\ Len(last.route) > 0 /\ last.found # None) =>
    LET before == travel_to_node(nodes,
                                 SubSeq(last.route, 1, Len(last.route) - 1))
    IN  /\ nodes[last.found].key = last.route[Len(last.route)]
        /\ before # None
        /\ nodes[last.found].father_key = nodes[before].key

\* ---- C17 ----
\* a is a subsequence of b
RECURSIVE IsSubsequence(_, _)
IsSubsequence(a, b) ==
  IF Len(a) = 0 THEN TRUE
  ELSE IF Len(b) = 0 THEN FALSE
  ELSE IF Head(a) = Head(b) THEN IsSubsequence(Tail(a), Tail(b))
  ELSE IsSubsequence(a, Tail(b))

\* the nodes of ns from i on that stay when every entry of keys deletes the
\* first node left with its key: a node goes when fewer nodes with its key
\* stand before it than keys has entries of that key
RECURSIVE StayingFrom(_, _, _)
StayingFrom(ns, keys, i) ==
  IF i > Len(ns) THEN <<>>
  ELSE LET before == Cardinality({j \in 1..(i - 1) : ns[j].key = ns[i].key})
       IN  IF before < Occurrences(keys, ns[i].key)
           THEN StayingFrom(ns, keys, i + 1)
           ELSE <<ns[i]>> \o StayingFrom(ns, keys, i + 1)

\* C17: the key list remove_node_with_childs(k) deletes from is in
\* post-order: the keys of the children of a node stand before the key of
\* the node, in the order of its children list, and so every descendant
\* before its ancestor; k is the last entry; each entry deletes at most the
\* first node of the sequence that carries its key.
C17_PostOrderList ==
  (last.op = "remove" /\ last.outcome = "ok") =>
    LET L == last.all_nodes_to_remove
    IN  /\ Len(L) >= 1
        /\ L[Len(L)] = last.key
        /\ \A p \in DOMAIN L :
             L[p] \in KeysOf(prev) =>
               IsSubsequence(prev[FirstOfKey(prev, L[p])].children,
                             SubSeq(L, 1, p - 1))
        /\ \A p \in 1..(Len(L) - 1) :
             \E q \in (p + 1)..Len(L) :
               /\ L[q] \in KeysOf(prev)
               /\ has_child(prev[FirstOfKey(prev, L[q])], L[p])
        /\ nodes = StayingFrom(prev, L, 1)

\* the removed node has two children and more, and a child with a child
C17_Witness ==
  /\ last.op = "remove"
  /\ last.outcome = "ok"
  /\ last.key \in KeysOf(prev)
  /\ LET n == prev[FirstOfKey(prev, last.key)]
     IN  /\ Len(n.children) >= 2
         /\ \E c \in DOMAIN n.children :
              /\ n.children[c] \in KeysOf(prev)
              /\ Len(prev[FirstOfKey(prev, n.children[c])].children) >= 1

TypeOK ==
  /\ \A i \in DOMAIN nodes : nodes[i].key \in Keys
  /\ appends \in 0..MaxAppends
  /\ removals \in 0..2
  /\ aborted \in BOOLEAN
====
